---- MODULE Spec2Model ----
(***************************************************************************)
(* Model of the Makefile generator of QPC                                  *)
(* (src/project_generators/makefile/makefile.py).                          *)
(*                                                                         *)
(* Text is modelled structurally: an Atom is a string without white space, *)
(* path separator or dot inside it (or one of the separators "/" and "."), *)
(* a Word is a sequence of Atoms (a path, a flag, a make token), a Line is *)
(* a sequence of Words (the Words are separated by blanks), a Text is a    *)
(* non-empty sequence of Lines (the Lines are separated by "\n").  The     *)
(* empty string is the Text with one empty Line.                           *)
(***************************************************************************)
EXTENDS Integers, Sequences, FiniteSets, TLC

VARIABLES
    pc,                 \* position in the operation being executed
    \* --- create_master_file / order_dependencies / topological_sort
    wanted_projects,    \* info.get_projects(...): sequence of project paths
    cwd,                \* os.getcwd() as os.path.relpath reads it at line 65
    out_dirs,           \* project path -> qpc_hash.get_out_dir(...) (empty Word: none)
    out_dir_dict,       \* ordered dict: sequence of <<path, out dir>>
    dependency_dict,    \* ordered dict: sequence of <<path, sequence of paths>>
    visited,            \* dict path -> BOOLEAN
    stack,              \* result list of topological_sort
    callstack,          \* frames of topological_sort_util: [v, idx]
    ti,                 \* index of the for loop of topological_sort
    make_paths, make_files,
    master_file,        \* the local string, written to the master file at the end
    archs,              \* args.archs
    ai,                 \* index of the for loop over args.archs
    architecture,       \* the local variable; "None" before the first assignment
    \* --- create_project
    project_archs,      \* project.get_archs()
    project_passes,     \* self._get_passes(project)
    pass_index,         \* index of the for loop over project_passes
    makefile            \* the local string, written to <file_name>.mak at the end

vars == <<pc, wanted_projects, cwd, out_dirs, out_dir_dict, dependency_dict, visited,
          stack, callstack, ti, make_paths, make_files, master_file,
          archs, ai, architecture,
          project_archs, project_passes, pass_index, makefile>>

masterVars == <<wanted_projects, cwd, out_dirs, out_dir_dict, dependency_dict, visited,
                stack, callstack, ti, make_paths, make_files, master_file,
                archs, ai, architecture>>
projectVars == <<project_archs, project_passes, pass_index, makefile>>

-----------------------------------------------------------------------------
(* Bounds of the model *)

\* most dependency edges of a dependency mapping
MaxEdges == 4
\* longest args.archs
MaxArchs == 3
\* longest source file list of a pass
MaxSources == 2
\* most passes of a project
MaxPasses == 2
\* depth at which the interpreter raises RecursionError (scaled down)
RecursionLimit == 5

-----------------------------------------------------------------------------
(* Sequences *)

Range(s) == {s[i] : i \in 1..Len(s)}

SeqsUpTo(S, n) == UNION {[1..k -> S] : k \in 0..n}

DistinctSeqsUpTo(S, n) ==
    {s \in SeqsUpTo(S, n) : \A i, j \in 1..Len(s) : i # j => s[i] # s[j]}

\* the largest index of atom a in word w, 0 when absent (str.rfind, 1-based)
RFind(w, a) ==
    LET I == {i \in 1..Len(w) : w[i] = a}
    IN  IF I = {} THEN 0 ELSE CHOOSE i \in I : \A j \in I : j <= i

\* the smallest index at which x occurs in s, 0 when absent
IndexOf(s, x) ==
    LET I == {i \in 1..Len(s) : s[i] = x}
    IN  IF I = {} THEN 0 ELSE CHOOSE i \in I : \A j \in I : i <= j

W(a) == <<a>>

TAB == W("\t")

-----------------------------------------------------------------------------
(* os.path *)

\* os.path.basename(p): what follows the last "/"
basename(p) == SubSeq(p, RFind(p, "/") + 1, Len(p))

\* str.rstrip(a): the word without the atoms a at its end
RECURSIVE rstrip(_, _)
rstrip(w, a) ==
    IF w # <<>> /\ w[Len(w)] = a THEN rstrip(SubSeq(w, 1, Len(w) - 1), a) ELSE w

\* os.path.split(p)[0]: the head runs through the last "/"; the slashes at
\* its end are stripped unless it holds nothing but slashes
split_head(p) ==
    LET head == SubSeq(p, 1, RFind(p, "/"))
    IN  IF head # <<>> /\ \E k \in 1..Len(head) : head[k] # "/"
        THEN rstrip(head, "/")
        ELSE head

\* os.path.splitext(p)[0]: the extension starts at the last dot of the last
\* component, unless only dots precede it in that component
splitext_root(p) ==
    LET sepIndex == RFind(p, "/")
        dotIndex == RFind(p, ".")
    IN  IF dotIndex > sepIndex
           /\ \E k \in (sepIndex + 1)..(dotIndex - 1) : p[k] # "."
        THEN SubSeq(p, 1, dotIndex - 1)
        ELSE p

MAKEFILE_EXT == <<".", "mak">>

\* [x for x in p.split("/") if x]: the non-empty components of a path
RECURSIVE Components(_, _, _)
Components(p, component, acc) ==
    IF p = <<>> THEN (IF component = <<>> THEN acc ELSE Append(acc, component))
    ELSE IF Head(p) = "/"
    THEN Components(Tail(p), <<>>, IF component = <<>> THEN acc ELSE Append(acc, component))
    ELSE Components(Tail(p), Append(component, Head(p)), acc)

\* os.path.normpath of an absolute path, on its components: "." is dropped,
\* ".." removes the component before it and is dropped at the root
RECURSIVE NormAbs(_, _)
NormAbs(comps, acc) ==
    IF comps = <<>> THEN acc
    ELSE IF Head(comps) = <<".">> THEN NormAbs(Tail(comps), acc)
    ELSE IF Head(comps) = <<".", ".">>
    THEN NormAbs(Tail(comps), SubSeq(acc, 1, Len(acc) - 1))
    ELSE NormAbs(Tail(comps), Append(acc, Head(comps)))

\* the components of os.path.abspath(p) in the working directory getcwd:
\* a relative path is joined to the working directory, then normalised
abspath_list(p, getcwd) ==
    NormAbs(Components(IF p # <<>> /\ p[1] = "/" THEN p ELSE getcwd \o <<"/">> \o p,
                       <<>>, <<>>), <<>>)

\* len(os.path.commonprefix([a, b])) of two lists
CommonPrefixLen(a, b) ==
    LET N == {n \in 0..Len(a) : n <= Len(b) /\ \A k \in 1..n : a[k] = b[k]}
    IN  CHOOSE n \in N : \A m \in N : m <= n

\* "/".join(comps)
RECURSIVE JoinPath(_)
JoinPath(comps) ==
    IF Len(comps) = 1 THEN comps[1]
    ELSE comps[1] \o <<"/">> \o JoinPath(Tail(comps))

\* os.path.relpath(p) in the working directory getcwd, p not empty
relpath(p, getcwd) ==
    LET start_list == abspath_list(<<".">>, getcwd)
        path_list == abspath_list(p, getcwd)
        i == CommonPrefixLen(start_list, path_list)
        rel_list == [k \in 1..(Len(start_list) - i) |-> <<".", ".">>]
                    \o SubSeq(path_list, i + 1, Len(path_list))
    IN  IF rel_list = <<>> THEN <<".">> ELSE JoinPath(rel_list)

-----------------------------------------------------------------------------
(* Python dict: insertion ordered, a sequence of <<key, value>> *)

DictKeys(d) == [i \in 1..Len(d) |-> d[i][1]]

DictHas(d, k) == \E i \in 1..Len(d) : d[i][1] = k

DictGet(d, k) == d[CHOOSE i \in 1..Len(d) : d[i][1] = k][2]

DictSet(d, k, v) ==
    IF DictHas(d, k)
    THEN [i \in 1..Len(d) |-> IF d[i][1] = k THEN <<k, v>> ELSE d[i]]
    ELSE Append(d, <<k, v>>)

-----------------------------------------------------------------------------
(* Text: string concatenation, "\n" and str.join *)

EmptyText == <<<<>>>>

\* a + b: the last line of a continues with the first line of b
Cat(a, b) ==
    SubSeq(a, 1, Len(a) - 1) \o <<a[Len(a)] \o b[1]>> \o Tail(b)

RECURSIVE CatAll(_)
CatAll(ts) == IF ts = <<>> THEN EmptyText ELSE Cat(Head(ts), CatAll(Tail(ts)))

\* the text of one line, without a newline
T(line) == <<line>>

\* "\n"
NL == <<<<>>, <<>>>>

\* sep.join(items), every item a Text
RECURSIVE Join(_, _)
Join(sep, items) ==
    IF items = <<>> THEN EmptyText
    ELSE IF Len(items) = 1 THEN items[1]
    ELSE CatAll(<<items[1], sep, Join(sep, Tail(items))>>)

\* the Texts of a list of one-line strings
Texts(lines) == [i \in 1..Len(lines) |-> T(lines[i])]

\* the words a possibly empty string contributes to a line
Words(w) == IF w = <<>> THEN <<>> ELSE <<w>>

-----------------------------------------------------------------------------
(* Inputs of create_master_file *)

pA == <<"a", "/", "x", ".", "qpc">>
pB == <<"b", "/", "y", ".", "z", ".", "qpc">>
pC == <<"c", "/", "x", ".", "qpc">>

Projects == {pA, pB, pC}

\* the output directory the hash file records for a project, once generated;
\* pA and pC are generated into the same directory
HashOutDir(p) ==
    IF p = pB THEN <<"out", "/", "b">> ELSE <<"out", "/", "a">>

\* the working directory of the runs that vary the projects or args.archs
WorkDir == <<"/", "work">>

\* the working directories of the runs that vary the output directories
WorkDirs == {<<"/", "work">>, <<"/", "work", "/", "sub">>}

\* the spellings of an output directory: plain, with a slash at the end, with
\* a leading ".", through "..", absolute below /work, absolute elsewhere, the
\* working directory itself, its parent's child
OutDirs ==
    {<<"out", "/", "a">>,
     <<"out", "/", "a", "/">>,
     <<".", "/", "out", "/", "a">>,
     <<"out", "/", ".", ".", "/", "b">>,
     <<"/", "work", "/", "out", "/", "a">>,
     <<"/", "opt", "/", "b">>,
     <<".">>,
     <<".", ".", "/", "b">>}

NoDir == <<>>

KeyOrders(S) == {s \in [1..Cardinality(S) -> S] : Range(s) = S}

\* a dependency list names a project once, in any order
DepLists == DistinctSeqsUpTo(Projects, Cardinality(Projects))

RECURSIVE TotalLen(_, _)
TotalLen(f, S) ==
    IF S = {} THEN 0
    ELSE LET x == CHOOSE y \in S : TRUE IN Len(f[x]) + TotalLen(f, S \ {x})

\* info.project_dependencies of the projects in S
DepMaps(S) == {deps \in [S -> DepLists] : TotalLen(deps, S) <= MaxEdges}

\* the members of Arch the generator knows
Arch == {"I386", "AMD64", "ARM", "ARM64"}

\* args.archs of the runs that vary the projects: none requested, and a
\* 64 bit architecture followed by a 32 bit one
GraphArchs == {<<>>, <<"AMD64", "I386">>}

\* info.project_dependencies of the runs that vary args.archs: pA depends on
\* pB, on pC and on itself
ArchDependencies == [p \in Projects |-> IF p = pA THEN <<pB, pC, pA>> ELSE <<>>]

\* the dependencies of the runs that vary the output directories
DirDependencies == [p \in Projects |-> IF p = pA THEN <<pB>> ELSE <<>>]

-----------------------------------------------------------------------------
(* create_master_file, lines 56-69 *)

RECURSIVE CollectOutDirs(_, _, _, _)
CollectOutDirs(wanted, dirs, getcwd, acc) ==
    IF wanted = <<>> THEN acc
    ELSE LET p == Head(wanted)
         IN  CollectOutDirs(Tail(wanted), dirs, getcwd,
                 IF dirs[p] # NoDir
                 THEN DictSet(acc, p, relpath(dirs[p], getcwd))
                 ELSE acc)

RECURSIVE CollectDependencies(_, _, _, _)
CollectDependencies(wanted, dirs, deps, acc) ==
    IF wanted = <<>> THEN acc
    ELSE LET p == Head(wanted)
         IN  CollectDependencies(Tail(wanted), dirs, deps,
                 IF dirs[p] # NoDir THEN DictSet(acc, p, deps[p]) ELSE acc)

\* lines 59-66 collect the two dicts, line 69 sets architecture to None and
\* line 70 starts the loop over args.archs
Collect(wanted, dirs, getcwd, project_dependencies, args_archs) ==
    /\ wanted_projects' = wanted
    /\ cwd' = getcwd
    /\ out_dirs' = dirs
    /\ out_dir_dict' = CollectOutDirs(wanted, dirs, getcwd, <<>>)
    /\ dependency_dict' = CollectDependencies(wanted, dirs, project_dependencies, <<>>)
    /\ archs' = args_archs
    /\ architecture' = "None"
    /\ ai' = 1

\* the output directories when the projects of resolved are generated
ResolvedDirs(resolved) ==
    [p \in Projects |-> IF p \in resolved THEN HashOutDir(p) ELSE NoDir]

\* the call of create_master_file.  Either the projects vary (every order of
\* the three projects, every set of them resolved, every dependency mapping
\* within the bound) with the architectures of GraphArchs, or args.archs
\* varies with pA and pB resolved and the dependencies of ArchDependencies,
\* or the spellings of the output directories of pA and pB and the working
\* directory vary
CreateMasterFile ==
    /\ pc = "idle"
    /\ \/ \E wanted \in KeyOrders(Projects), resolved \in SUBSET Projects,
             args_archs \in GraphArchs :
             \E deps \in DepMaps(resolved) :
                Collect(wanted, ResolvedDirs(resolved), WorkDir,
                        [p \in Projects |-> IF p \in resolved THEN deps[p] ELSE <<>>],
                        args_archs)
       \/ \E args_archs \in SeqsUpTo(Arch, MaxArchs) :
             Collect(<<pA, pB, pC>>, ResolvedDirs({pA, pB}), WorkDir,
                     ArchDependencies, args_archs)
       \/ \E dirA \in OutDirs, dirB \in OutDirs, getcwd \in WorkDirs :
             Collect(<<pA, pB, pC>>,
                     [p \in Projects |-> IF p = pA THEN dirA
                                         ELSE IF p = pB THEN dirB ELSE NoDir],
                     getcwd, DirDependencies, <<"AMD64">>)
    /\ pc' = "arch_loop"
    /\ UNCHANGED <<visited, stack, callstack, ti, make_paths, make_files, master_file>>
    /\ UNCHANGED projectVars

-----------------------------------------------------------------------------
(* create_master_file, lines 70-80: the default architecture and the header *)

\* line 31: the architectures the generator adds to self._architectures
self_architectures == {"I386", "AMD64", "ARM", "ARM64"}

\* qpc_base.is_arch_64bit
is_arch_64bit(arch) == arch \in {"AMD64", "ARM64"}

\* every later 64 bit architecture replaces the chosen one
ArchCondition_any_64(arch, chosen) ==
    \/ arch \in self_architectures /\ chosen = "None"
    \/ is_arch_64bit(arch) /\ chosen # "None"

\* lines 71-72; "and" binds tighter than "or", None is falsy
ArchCondition(arch, chosen) ==
    \/ arch \in self_architectures /\ chosen = "None"
    \/ is_arch_64bit(arch) /\ chosen # "None" /\ ~is_arch_64bit(chosen)

\* Arch.name.lower()
ArchNameLower(arch) ==
    CASE arch = "I386" -> "i386"
      [] arch = "AMD64" -> "amd64"
      [] arch = "ARM" -> "arm"
      [] arch = "ARM64" -> "arm64"

\* info.get_configs(), and the configurations of the base info of a project
Configs == <<"Debug", "Release">>

\* lines 70-73, the condition holds
ArchAssign ==
    /\ pc = "arch_loop"
    /\ ai <= Len(archs)
    /\ ArchCondition(archs[ai], architecture)
    /\ architecture' = archs[ai]
    /\ ai' = ai + 1
    /\ UNCHANGED <<pc, wanted_projects, cwd, out_dirs, out_dir_dict, dependency_dict,
                   visited, stack, callstack, ti, make_paths, make_files,
                   master_file, archs>>
    /\ UNCHANGED projectVars

\* lines 70-72, the condition does not hold
ArchSkip ==
    /\ pc = "arch_loop"
    /\ ai <= Len(archs)
    /\ ~ArchCondition(archs[ai], architecture)
    /\ ai' = ai + 1
    /\ UNCHANGED <<pc, wanted_projects, cwd, out_dirs, out_dir_dict, dependency_dict,
                   visited, stack, callstack, ti, make_paths, make_files,
                   master_file, archs, architecture>>
    /\ UNCHANGED projectVars

\* line 77
SettingsLine(arch) ==
    <<W("SETTINGS"), W("="), <<"ARCH=", ArchNameLower(arch)>>, <<"CONFIG=", Configs[1]>>>>

\* lines 75-80
MasterFileHeader(arch) ==
    CatAll(<<T(<<W("#!/usr/bin/make"), W("-f")>>), NL,
             NL,
             T(SettingsLine(arch)), NL,
             NL,
             T(<<W("all:")>>), NL>>)

\* lines 75-80, after the loop: None has no attribute name, the AttributeError
\* ends create_master_file before anything is ordered or written
StartMasterFile ==
    /\ pc = "arch_loop"
    /\ ai > Len(archs)
    /\ IF architecture = "None"
       THEN /\ pc' = "AttributeError"
            /\ UNCHANGED master_file
       ELSE /\ pc' = "order_dependencies"
            /\ master_file' = MasterFileHeader(architecture)
    /\ UNCHANGED <<wanted_projects, cwd, out_dirs, out_dir_dict, dependency_dict,
                   visited, stack, callstack, ti, make_paths, make_files,
                   archs, ai, architecture>>
    /\ UNCHANGED projectVars

-----------------------------------------------------------------------------
(* topological_sort, lines 103-114 *)

\* a traversal that does not mark the project it enters
MarkVisited_never(vis, v) == vis

\* line 118
MarkVisited(vis, v) == [vis EXCEPT ![v] = TRUE]

\* the result built front first, as for edges that point to dependents
PushResult_front(stk, v) == <<v>> \o stk

\* line 129
PushResult(stk, v) == Append(stk, v)

\* the call of topological_sort_util(dependency_dict, v, visited, stack):
\* a new frame, whose first statement marks v
CallUtil(frames, v) == Append(frames, [v |-> v, idx |-> 1])

TopologicalSort ==
    /\ pc = "order_dependencies"
    /\ visited' = [p \in Range(DictKeys(out_dir_dict)) |-> FALSE]
    /\ stack' = <<>>
    /\ callstack' = <<>>
    /\ ti' = 1
    /\ pc' = "topological_sort"
    /\ UNCHANGED <<wanted_projects, cwd, out_dirs, out_dir_dict, dependency_dict,
                   make_paths, make_files, master_file, archs, ai, architecture>>
    /\ UNCHANGED projectVars

SortUnchanged ==
    /\ UNCHANGED <<wanted_projects, cwd, out_dirs, out_dir_dict, dependency_dict,
                   make_paths, make_files, master_file, archs, ai, architecture>>
    /\ UNCHANGED projectVars

\* lines 111-113, the project is not visited yet
SortCall ==
    /\ pc = "topological_sort"
    /\ callstack = <<>>
    /\ ti <= Len(dependency_dict)
    /\ LET i == DictKeys(dependency_dict)[ti]
       IN  /\ ~visited[i]
           /\ visited' = MarkVisited(visited, i)
           /\ callstack' = CallUtil(callstack, i)
    /\ ti' = ti + 1
    /\ UNCHANGED <<pc, stack>>
    /\ SortUnchanged

\* lines 111-112, the project was visited from an earlier one
SortSkip ==
    /\ pc = "topological_sort"
    /\ callstack = <<>>
    /\ ti <= Len(dependency_dict)
    /\ visited[DictKeys(dependency_dict)[ti]]
    /\ ti' = ti + 1
    /\ UNCHANGED <<pc, visited, stack, callstack>>
    /\ SortUnchanged

\* line 114
SortReturn ==
    /\ pc = "topological_sort"
    /\ callstack = <<>>
    /\ ti > Len(dependency_dict)
    /\ pc' = "sorted"
    /\ UNCHANGED <<visited, stack, callstack, ti>>
    /\ SortUnchanged

-----------------------------------------------------------------------------
(* topological_sort_util, lines 116-129 *)

Top == callstack[Len(callstack)]

TopDeps == DictGet(dependency_dict, Top.v)

Advance(frames) ==
    [frames EXCEPT ![Len(frames)] = [@ EXCEPT !.idx = @ + 1]]

\* the KeyError of a project that is not generated left to propagate
AfterKeyError_raise(position) == "KeyError"

\* lines 125-126: the KeyError is caught and passed over
AfterKeyError(position) == position

\* lines 121-126: visited[i] raises KeyError for a project that is no key
UtilSkipMissing ==
    /\ pc = "topological_sort"
    /\ callstack # <<>>
    /\ Top.idx <= Len(TopDeps)
    /\ TopDeps[Top.idx] \notin DOMAIN visited
    /\ callstack' = Advance(callstack)
    /\ pc' = AfterKeyError(pc)
    /\ UNCHANGED <<visited, stack, ti>>
    /\ SortUnchanged

\* lines 121-123: the dependency is already visited
UtilSkipVisited ==
    /\ pc = "topological_sort"
    /\ callstack # <<>>
    /\ Top.idx <= Len(TopDeps)
    /\ TopDeps[Top.idx] \in DOMAIN visited
    /\ visited[TopDeps[Top.idx]]
    /\ callstack' = Advance(callstack)
    /\ UNCHANGED <<pc, visited, stack, ti>>
    /\ SortUnchanged

\* lines 121-124: recursion into an unvisited dependency; the interpreter
\* raises RecursionError when the frames reach its limit
UtilRecurse ==
    /\ pc = "topological_sort"
    /\ callstack # <<>>
    /\ Top.idx <= Len(TopDeps)
    /\ TopDeps[Top.idx] \in DOMAIN visited
    /\ ~visited[TopDeps[Top.idx]]
    /\ IF Len(callstack) >= RecursionLimit
       THEN /\ pc' = "RecursionError"
            /\ UNCHANGED <<visited, callstack>>
       ELSE /\ visited' = MarkVisited(visited, TopDeps[Top.idx])
            /\ callstack' = CallUtil(Advance(callstack), TopDeps[Top.idx])
            /\ pc' = pc
    /\ UNCHANGED <<stack, ti>>
    /\ SortUnchanged

\* line 129
UtilReturn ==
    /\ pc = "topological_sort"
    /\ callstack # <<>>
    /\ Top.idx > Len(TopDeps)
    /\ stack' = PushResult(stack, Top.v)
    /\ callstack' = SubSeq(callstack, 1, Len(callstack) - 1)
    /\ UNCHANGED <<pc, visited, ti>>
    /\ SortUnchanged

-----------------------------------------------------------------------------
(* order_dependencies, lines 93-100, and create_master_file, lines 82-88 *)

\* a line of a recipe starts with a tab
IsRecipeLine(l) == l # <<>> /\ l[1] = TAB


\* the directories taken in the order of the dict, not of the sorted scripts
MakePaths_dict_order(sorted_scripts, dirs) ==
    [i \in 1..Len(sorted_scripts) |-> dirs[i][2]]

\* line 98
MakePaths(sorted_scripts, dirs) ==
    [i \in 1..Len(sorted_scripts) |-> DictGet(dirs, sorted_scripts[i])]

\* line 99
MakeFile(script_path) == splitext_root(basename(script_path)) \o MAKEFILE_EXT

MakeFiles(sorted_scripts) ==
    [i \in 1..Len(sorted_scripts) |-> MakeFile(sorted_scripts[i])]

OrderDependencies ==
    /\ pc = "sorted"
    /\ make_paths' = MakePaths(stack, out_dir_dict)
    /\ make_files' = MakeFiles(stack)
    /\ pc' = "ordered"
    /\ UNCHANGED <<wanted_projects, cwd, out_dirs, out_dir_dict, dependency_dict, visited,
                   stack, callstack, ti, master_file, archs, ai, architecture>>
    /\ UNCHANGED projectVars

\* line 85
InvocationLine(path, file) ==
    <<TAB, W("make"), W("-C"), path, W("-f"), file, W("$(SETTINGS)")>>

\* lines 84-85: what the loop adds to master_file, a line and its "\n" for
\* every path
InvocationLines(paths, files) ==
    CatAll([index \in 1..Len(paths) |->
               Cat(T(InvocationLine(paths[index], files[index])), NL)])

\* lines 84-88: the file holds master_file + "\n"
WriteMasterFile ==
    /\ pc = "ordered"
    /\ master_file' = Cat(Cat(master_file, InvocationLines(make_paths, make_files)), NL)
    /\ pc' = "master_written"
    /\ UNCHANGED <<wanted_projects, cwd, out_dirs, out_dir_dict, dependency_dict, visited,
                   stack, callstack, ti, make_paths, make_files,
                   archs, ai, architecture>>
    /\ UNCHANGED projectVars

-----------------------------------------------------------------------------

Init ==
    /\ pc = "idle"
    /\ wanted_projects = <<>>
    /\ cwd = <<"/">>
    /\ out_dirs = [p \in Projects |-> NoDir]
    /\ out_dir_dict = <<>>
    /\ dependency_dict = <<>>
    /\ visited = <<>>
    /\ stack = <<>>
    /\ callstack = <<>>
    /\ ti = 1
    /\ make_paths = <<>>
    /\ make_files = <<>>
    /\ master_file = <<>>
    /\ archs = <<>>
    /\ ai = 1
    /\ architecture = "None"
    /\ project_archs = <<>>
    /\ project_passes = <<>>
    /\ pass_index = 1
    /\ makefile = <<>>

\* create_master_file
Next ==
    \/ CreateMasterFile
    \/ ArchAssign
    \/ ArchSkip
    \/ StartMasterFile
    \/ TopologicalSort
    \/ SortCall
    \/ SortSkip
    \/ SortReturn
    \/ UtilSkipMissing
    \/ UtilSkipVisited
    \/ UtilRecurse
    \/ UtilReturn
    \/ OrderDependencies
    \/ WriteMasterFile

Spec == Init /\ [][Next]_vars

-----------------------------------------------------------------------------
(* Properties of the dependency order *)

\* the keys of the dependency mapping: the requested projects
Keys == Range(DictKeys(dependency_dict))

\* A depends on B
DependsOn(a, b) == b \in Range(DictGet(dependency_dict, a))

\* the requested projects reachable from a by n or fewer dependency edges, n >= 1
RECURSIVE ReachWithin(_, _)
ReachWithin(a, n) ==
    LET direct == {b \in Keys : DependsOn(a, b)}
    IN  IF n <= 1 THEN direct
        ELSE direct \cup UNION {ReachWithin(b, n - 1) : b \in direct}

Cyclic == \E a \in Keys : a \in ReachWithin(a, Cardinality(Keys))

Returned == pc \in {"sorted", "ordered", "master_written"}

Pos(p) == IndexOf(stack, p)

\* C1: for an acyclic dependency mapping, the returned sequence places B
\* strictly before A for every edge "A depends on B" between requested
\* projects, whatever the iteration order of the keys and of the dependencies.
C1_DependenciesFirst ==
    (Returned /\ ~Cyclic) =>
        \A a, b \in Keys :
            DependsOn(a, b) => (Pos(b) > 0 /\ Pos(b) < Pos(a))

\* an acyclic chain of three requested projects, iterated dependents first
C1_Witness ==
    /\ Returned
    /\ ~Cyclic
    /\ \E a, b, c \in Keys :
          /\ a # b /\ b # c /\ a # c
          /\ DependsOn(a, b) /\ DependsOn(b, c)
          /\ DictKeys(dependency_dict) = <<a, b, c>>
          /\ stack = <<c, b, a>>

\* the projects that have a resolved output directory
Generated == {p \in Range(wanted_projects) : out_dirs[p] # NoDir}

\* C2: the returned sequence contains every requested project exactly once
\* and nothing else; a dependency that is not requested never appears, raises
\* no error and blocks no requested project.
C2_EachRequestedOnce ==
    /\ pc # "KeyError"
    /\ Returned =>
          /\ Keys = Generated
          /\ Range(stack) = Keys
          /\ Len(stack) = Cardinality(Keys)

\* a requested project depends on one that is not requested, another
\* requested project has no dependencies and no dependents
C2_Witness ==
    /\ Returned
    /\ \E a \in Keys : \E m \in Projects \ Keys : DependsOn(a, m)
    /\ \E d \in Keys :
          /\ DictGet(dependency_dict, d) = <<>>
          /\ \A a \in Keys : ~DependsOn(a, d)
    /\ Len(stack) = 2

\* the script file name of each project of the model: the base name of its
\* definition path with the extension replaced by .mak
ExpectedMak(p) ==
    IF p = pB THEN <<"y", ".", "z", ".", "mak">> ELSE <<"x", ".", "mak">>

\* the directory a path names when make runs in the working directory
Directory(path) == abspath_list(path, cwd)

\* the invocation line of project p: make changes into p's own output
\* directory and runs p's own script file
IsLineOf(line, p) ==
    /\ Len(line) = 7
    /\ SubSeq(line, 1, 3) = <<TAB, W("make"), W("-C")>>
    /\ Directory(line[4]) = Directory(out_dirs[p])
    /\ SubSeq(line, 5, 7) = <<W("-f"), ExpectedMak(p), W("$(SETTINGS)")>>

\* one invocation line per generated project, in the order of topological_sort,
\* each pairing the project's own directory with its own script file
OneLinePerProject ==
    LET lines == SelectSeq(master_file, IsRecipeLine)
    IN  /\ Len(lines) = Cardinality(Generated)
        /\ Len(lines) = Len(stack)
        /\ \A p \in Generated : \E i \in 1..Len(stack) : stack[i] = p
        /\ \A i \in 1..Len(lines) : IsLineOf(lines[i], stack[i])

\* the line of B comes before the line of A
LinesInDependencyOrder ==
    \A a, b \in Generated :
        (a # b /\ DependsOn(a, b)) => (Pos(b) > 0 /\ Pos(b) < Pos(a))

\* C3 as stated: one line per generated project, own directory with own file,
\* and B's line before A's whenever A depends on B and both are generated.
C3_Original ==
    pc = "master_written" => (OneLinePerProject /\ LinesInDependencyOrder)

\* C3 as amended: the same, the order of the lines of A and B being claimed
\* only when the dependencies among the generated projects are acyclic.
C3_MasterLines ==
    pc = "master_written" =>
        (OneLinePerProject /\ (~Cyclic => LinesInDependencyOrder))

\* A depends on B, both generated into different directories, A requested first
C3_Witness ==
    /\ pc = "master_written"
    /\ ~Cyclic
    /\ wanted_projects[1] = pA
    /\ pA \in Keys
    /\ DependsOn(pA, pB)
    /\ out_dirs[pA] = <<"out", "/", "a">>
    /\ SelectSeq(master_file, IsRecipeLine) =
           <<<<TAB, W("make"), W("-C"), <<"out", "/", "b">>, W("-f"),
               <<"y", ".", "z", ".", "mak">>, W("$(SETTINGS)")>>,
             <<TAB, W("make"), W("-C"), <<"out", "/", "a">>, W("-f"),
               <<"x", ".", "mak">>, W("$(SETTINGS)")>>>>

\* an output directory given as an absolute path outside the working directory
C3_WitnessRelpath ==
    /\ pc = "master_written"
    /\ cwd = <<"/", "work", "/", "sub">>
    /\ out_dirs[pA] = <<"/", "opt", "/", "b">>
    /\ out_dirs[pB] = <<"out", "/", "a", "/">>
    /\ SelectSeq(master_file, IsRecipeLine) =
           <<<<TAB, W("make"), W("-C"), <<"out", "/", "a">>, W("-f"),
               <<"y", ".", "z", ".", "mak">>, W("$(SETTINGS)")>>,
             <<TAB, W("make"), W("-C"),
               <<".", ".", "/", ".", ".", "/", "opt", "/", "b">>, W("-f"),
               <<"x", ".", "mak">>, W("$(SETTINGS)")>>>>

\* C8 as stated: with a cycle among the requested projects the traversal
\* never returns an order.
C8_Original == Cyclic => ~Returned

\* the work done on project k: nothing, the position of the loop of its frame,
\* or all of it once it is in the result
Done(k) ==
    LET I == {i \in 1..Len(callstack) : callstack[i].v = k}
    IN  IF k \in Range(stack) THEN Len(DictGet(dependency_dict, k)) + 2
        ELSE IF I = {} THEN 0
        ELSE callstack[CHOOSE i \in I : \A j \in I : j <= i].idx

RECURSIVE SumDone(_)
SumDone(S) ==
    IF S = {} THEN 0
    ELSE LET k == CHOOSE x \in S : TRUE IN Done(k) + SumDone(S \ {k})

Progress == ti + SumDone(Keys)

RECURSIVE SumDeps(_)
SumDeps(d) == IF d = <<>> THEN 0 ELSE Len(Head(d)[2]) + 2 + SumDeps(Tail(d))

ProgressBound == Len(dependency_dict) + 1 + SumDeps(dependency_dict)

\* C8 as amended: with a cycle among the requested projects (a project that
\* lists itself included) every project is marked before its dependencies are
\* looked at, so each is entered at most once: the recursion is never deeper
\* than the number of requested projects, no RecursionError is raised, every
\* step of the traversal makes progress towards a bound fixed by the mapping
\* and can be followed by another one until the order is returned, and the
\* order returned holds every requested project once.
C8_CycleTerminates ==
    /\ [](Cyclic =>
            /\ pc # "RecursionError"
            /\ Len(callstack) <= Cardinality(Keys)
            /\ (pc = "topological_sort" => (Progress <= ProgressBound /\ ENABLED Next))
            /\ (Returned => Len(stack) = Cardinality(Keys)))
    /\ [][(Cyclic /\ pc = "topological_sort" /\ pc' = "topological_sort")
              => Progress' > Progress]_vars

\* a cycle through all three requested projects, and the order is returned
C8_Witness ==
    /\ Returned
    /\ Cardinality(Keys) = 3
    /\ \A a \in Keys : a \in ReachWithin(a, 3) /\ ~DependsOn(a, a)
    /\ Len(stack) = 3

\* a project that lists itself as a dependency, and the order is returned
C8_WitnessSelf ==
    /\ Returned
    /\ \E a \in Keys : DependsOn(a, a)

\* the architectures that are 64 bit
Is64(a) == a = "AMD64" \/ a = "ARM64"

FirstSuchThat(s, P(_)) ==
    LET I == {i \in 1..Len(s) : P(s[i])}
    IN  s[CHOOSE i \in I : \A j \in I : i <= j]

Supported(a) == a \in {"I386", "AMD64", "ARM", "ARM64"}

\* the loop over args.archs has run to its end
ArchLoopDone == pc \notin {"idle", "arch_loop"}

\* C4: when the requested architectures hold a 64 bit one, the default is
\* the first 64 bit one of the sequence, whatever the order; when they hold
\* none, it is the first supported one; a 64 bit default is never replaced.
C4_DefaultArch ==
    /\ (pc = "arch_loop" /\ architecture # "None" /\ Is64(architecture)) =>
           architecture = FirstSuchThat(archs, Is64)
    /\ ArchLoopDone =>
          /\ (\E i \in 1..Len(archs) : Is64(archs[i])) =>
                 architecture = FirstSuchThat(archs, Is64)
          /\ ((\A i \in 1..Len(archs) : ~Is64(archs[i]))
                 /\ (\E i \in 1..Len(archs) : Supported(archs[i]))) =>
                 architecture = FirstSuchThat(archs, Supported)

\* a 32 bit architecture first, then two different 64 bit ones
C4_Witness ==
    /\ pc = "master_written"
    /\ archs = <<"I386", "ARM64", "AMD64">>
    /\ architecture = "ARM64"
    /\ master_file[3] =
           <<W("SETTINGS"), W("="), <<"ARCH=", "arm64">>, <<"CONFIG=", "Debug">>>>

\* only 32 bit architectures: the first one stays
C4_Witness32 ==
    /\ ArchLoopDone
    /\ archs = <<"ARM", "I386">>
    /\ architecture = "ARM"

-----------------------------------------------------------------------------
(* gen_cflags, gen_compile_exe, gen_compile_dyn, gen_compile_stat *)

Prefixed(prefix, ws) == [i \in 1..Len(ws) |-> <<prefix>> \o ws[i]]

RECURSIVE Defines(_)
Defines(ds) ==
    IF ds = <<>> THEN <<>> ELSE <<W("-D"), Head(ds)>> \o Defines(Tail(ds))

\* lines 140-154, with libs, defs and includes at their default True
gen_cflags(conf) ==
    conf.compiler_options
    \o conf.linker_options
    \o Defines(conf.preprocessor_definitions)
    \o Prefixed("-L", conf.library_directories)
    \o Prefixed("-l", conf.libraries)
    \o Prefixed("-I", conf.include_directories)

\* lines 158-160
gen_compile_exe(conf) ==
    <<W("@$(COMPILER)"), W("$(SOURCES)")>>
    \o (IF conf.entry_point # <<>> THEN <<<<"-Wl,--entry=">> \o conf.entry_point>> ELSE <<>>)
    \o gen_cflags(conf) \o <<W("-o"), W("$@")>>

\* lines 163-164
gen_compile_dyn(conf) ==
    <<W("@$(COMPILER)"), W("-shared"), W("-fPIC"), W("$(SOURCES)")>>
    \o gen_cflags(conf) \o <<W("-o"), W("$@")>>

\* lines 167-168
gen_compile_stat == <<W("@ar"), W("rcs"), W("$@"), W("$(OBJECTS)")>>

-----------------------------------------------------------------------------
(* gen_project_targets, lines 171-205 *)

\* line 174
TargetName(conf) ==
    IF conf.output_file # <<>> THEN splitext_root(conf.output_file) ELSE W("$(OUTNAME)")

\* the import library kept for a static library too
ImportLibrary_any_kind(conf) ==
    IF conf.import_library # <<>>
    THEN splitext_root(conf.import_library) \o <<".", "a">>
    ELSE <<>>

\* the import library never made a target
ImportLibrary_none(conf) == <<>>

\* lines 177-180
ImportLibrary(conf) ==
    IF conf.import_library # <<>> /\ conf.configuration_type # "STATIC_LIBRARY"
    THEN splitext_root(conf.import_library) \o <<".", "a">>
    ELSE <<>>

\* '\t' + '\n\t'.join(action.split('\n')), the action being one line
Recipe(action) == T(<<TAB>> \o action)

EchoLine(colour, what, name) ==
    <<TAB, W("@echo"), <<"'$(", colour, ")", what>> \o name \o <<"$(NC)'">>>>

\* lines 182-195
PrimaryRule(conf) ==
    LET target_name == TargetName(conf)
        import_library == ImportLibrary(conf)
        markers == <<W(":"), W("__PREBUILD"), W("$(OBJECTS)"), W("__PRELINK")>>
    IN  CASE conf.configuration_type = "APPLICATION" ->
                CatAll(<<T(<<target_name>> \o markers \o Words(import_library)), NL,
                         T(EchoLine("GREEN", "Compiling executable ", target_name)), NL,
                         Recipe(gen_compile_exe(conf))>>)
          [] conf.configuration_type = "DYNAMIC_LIBRARY" ->
                CatAll(<<T(<<<<"$(addsuffix .so,">> \o target_name \o <<")">>>>
                           \o markers \o Words(import_library)), NL,
                         T(EchoLine("CYAN", "Compiling dynamic library ",
                                    target_name \o <<".so">>)), NL,
                         Recipe(gen_compile_dyn(conf))>>)
          [] conf.configuration_type = "STATIC_LIBRARY" ->
                CatAll(<<T(<<<<"$(addsuffix .a,">> \o target_name \o <<")">>>> \o markers), NL,
                         T(EchoLine("CYAN", "Compiling static library ",
                                    target_name \o <<".a">>)), NL,
                         Recipe(gen_compile_stat)>>)

\* lines 198-201
ImportLibraryRule(conf) ==
    LET import_library == ImportLibrary(conf)
    IN  IF import_library # <<>>
        THEN CatAll(<<NL, NL,
                      T(<<import_library, W(":"), W("__PREBUILD"), W("$(OBJECTS)"),
                          W("__PRELINK")>>), NL,
                      T(EchoLine("CYAN", "Creating import library ", import_library)), NL,
                      Recipe(gen_compile_stat)>>)
        ELSE EmptyText

\* line 203
PostBuild(conf) ==
    CatAll(<<NL, T(<<TAB>>), Join(Cat(NL, T(<<TAB>>)), Texts(conf.post_build))>>)

gen_project_targets(conf) ==
    CatAll(<<NL, NL, T(<<W("# TARGETS")>>), NL, NL,
             PrimaryRule(conf),
             ImportLibraryRule(conf),
             PostBuild(conf)>>)

-----------------------------------------------------------------------------
(* gen_dependency_tree, gen_clean_target, gen_script_targets, make_ifeq *)

\* lines 212-215: one rule per item of the objects dict
RECURSIVE ObjectRules(_, _)
ObjectRules(objects, conf) ==
    IF objects = <<>> THEN EmptyText
    ELSE LET obj == Head(objects)[1]
             path == Head(objects)[2]
         IN  CatAll(<<NL, T(<<obj, W(":"), path>>), NL,
                      T(<<TAB, W("@echo"),
                          <<"'$(CYAN)Building Object ">> \o path \o <<"$(NC)'">>>>), NL,
                      T(<<TAB, W("@$(COMPILER)"), W("-c"), W("-fPIC")>> \o gen_cflags(conf)
                          \o <<path, W("-o"), W("$@")>>), NL,
                      ObjectRules(Tail(objects), conf)>>)

\* lines 208-217
gen_dependency_tree(objects, conf) ==
    CatAll(<<NL, T(<<W("#DEPENDENCY TREE:")>>), NL, NL, ObjectRules(objects, conf)>>)

\* lines 220-231
gen_clean_target ==
    <<<<>>,
      <<W("# CLEAN TARGET:")>>,
      <<>>,
      <<W("clean"), W(":")>>,
      <<TAB, W("@echo"), W("\"Cleaning objects, archives, shared objects, and dynamic libs\"")>>,
      <<TAB, W("@rm"), W("-f"), W("$(wildcard"), W("*.o"), W("*.a"), W("*.so"), W("*.dll"),
        W("*.dylib)")>>,
      <<>>,
      <<W(".PHONY"), W(":"), W("clean"), W("__PREBUILD"), W("__PRELINK"), W("__POSTBUILD")>>,
      <<>>,
      <<>>,
      <<>>>>

\* lines 234-241
gen_script_targets(conf) ==
    CatAll(<<NL, NL, T(<<W("__PREBUILD"), W(":")>>), NL,
             T(<<TAB>>), Join(Cat(NL, T(<<TAB>>)), Texts(conf.pre_build)), NL, NL,
             NL, NL, T(<<W("__PRELINK"), W(":")>>), NL,
             T(<<TAB>>), Join(Cat(NL, T(<<TAB>>)), Texts(conf.pre_link)), NL, NL>>)

\* lines 132-133
make_ifeq(a, b, body) ==
    CatAll(<<NL, T(<<W("ifeq"), <<"(", a, ",", b, ")">>>>), NL, body, NL,
             T(<<W("endif")>>), NL>>)

-----------------------------------------------------------------------------
(* gen_project_config_definitions, lines 245-285 *)

\* line 248: the key of a source file in the objects dict
ObjectPath(build_dir, source) ==
    build_dir \o <<"/">> \o splitext_root(basename(source)) \o <<".", "o">>

\* lines 246-248
RECURSIVE Objects(_, _, _)
Objects(source_files, build_dir, acc) ==
    IF source_files = <<>> THEN acc
    ELSE Objects(Tail(source_files), build_dir,
                 DictSet(acc, ObjectPath(build_dir, Head(source_files)), Head(source_files)))

\* "NAME = " + '\t\\\n\t'.join(items) + "\n"; the tab before the backslash is
\* white space inside the line, the tab after the newline starts the next line
ListVariable(name, items) ==
    CatAll(<<T(<<W(name), W("=")>>),
             Join(CatAll(<<T(<<W("\\")>>), NL, T(<<TAB>>)>>), Texts([i \in 1..Len(items) |-> <<items[i]>>])),
             NL>>)

\* lines 253-263
CreateDirs(pass) ==
    LET conf == pass.config
        bin_dir == IF conf.output_file # <<>> THEN split_head(conf.output_file)
                   ELSE conf.out_dir
        mkdir(dir) == T(<<W("$(shell"), W("mkdir"), W("-p")>>
                        \o Words(dir \o <<")">>))
    IN  Cat(IF conf.output_file # <<>> \/ conf.out_dir # <<>>
            THEN CatAll(<<NL, T(<<W("# CREATE BIN DIR")>>), NL, mkdir(bin_dir), NL>>)
            ELSE EmptyText,
            CatAll(<<NL, T(<<W("# CREATE BUILD DIR")>>), NL, mkdir(conf.build_dir), NL>>))

gen_project_config_definitions(pass) ==
    LET conf == pass.config
        objects == Objects(pass.source_files, conf.build_dir, <<>>)
    IN  make_ifeq(pass.config_name, "$(CONFIG)",
          make_ifeq(pass.arch, "$(ARCH)",
            CatAll(<<CreateDirs(pass),
                     NL, T(<<W("# SOURCE FILES:")>>), NL, NL,
                     ListVariable("SOURCES", pass.source_files),
                     NL, T(<<W("#OBJECTS:")>>), NL, NL,
                     ListVariable("OBJECTS", DictKeys(objects)),
                     NL, T(<<W("# MACROS:")>>), NL, NL,
                     T(<<W("OUTNAME"), W("="),
                         IF conf.out_name # <<>> THEN conf.out_name ELSE pass.file_name>>),
                     gen_project_targets(conf),
                     gen_clean_target,
                     gen_dependency_tree(objects, conf),
                     gen_script_targets(conf)>>)))

-----------------------------------------------------------------------------
(* make_ifndef, get_default_platform, gen_defines *)

\* lines 136-137
make_ifndef(item, body) ==
    CatAll(<<NL, T(<<W("ifndef"), <<"$(", item, ")">>>>), NL, body, NL,
             T(<<W("endif")>>), NL>>)

\* lines 288-296
get_default_platform(project_archs_) ==
    IF "AMD64" \in Range(project_archs_) THEN "amd64"
    ELSE IF "ARM64" \in Range(project_archs_) THEN "arm64"
    ELSE ArchNameLower(project_archs_[1])

\* ','.join(configs), the atoms of one word
RECURSIVE JoinAtoms(_, _)
JoinAtoms(sep, items) ==
    IF items = <<>> THEN <<>>
    ELSE IF Len(items) = 1 THEN <<items[1]>>
    ELSE <<items[1], sep>> \o JoinAtoms(sep, Tail(items))

\* lines 309-314; a character outside ASCII is the atom of its code point
Banner ==
    <<<<<<"# |", "U+FFE3", "U+FFE3", "U+FFE3", "U+FFE3", "U+FFE3", "U+FFE3",
          "U+FFE3", "U+FFE3", "|">>>>,
      <<W("# |    make > *    |")>>,
      <<<<"# |", "U+FF3F", "U+FF3F", "U+FF3F", "U+FF3F", "U+FF3F", "U+FF3F",
          "U+FF3F", "U+FF3F", "|">>>>,
      <<W("# (\\__/) ||")>>,
      <<<<"# (", "U+2022", "U+3145", "U+2022", ") ||">>>>,
      <<<<"# / ", "U+3000", " ", "U+3065">>>>>>

\* lines 327-330; \033 is the escape character
Colour(name, code) == <<W(name), <<"=", "\\033", code>>>>

\* lines 300-316, the text before the first interpolation
DefinesHead ==
    <<<<W("#!/usr/bin/make"), W("-f")>>,
      <<>>,
      <<>>,
      <<W("# MAKEFILE GENERATED BY QPC")>>,
      <<W("# IF YOU ARE READING THIS AND DID NOT GENERATE THIS FILE WITH QPC,")>>,
      <<W("# IT PROBABLY WILL NOT WORK. DOWNLOAD QPC AND BUILD THE MAKEFILE")>>,
      <<W("# YOURSELF.")>>,
      <<>>,
      <<>>>>
    \o Banner
    \o <<<<>>,
         <<W("# don't mess with this, might break stuff")>>,
         <<>>>>

\* lines 321-335, the text after the last interpolation
DefinesTail ==
    <<<<>>,
      <<>>,
      <<>>,
      <<W("# COLORS!!!")>>,
      <<>>,
      <<>>,
      Colour("RED", "[0;31m"),
      Colour("CYAN", "[0;36m"),
      Colour("GREEN", "[0;32m"),
      Colour("NC", "[0m"),
      <<>>,
      <<W("############################")>>,
      <<W("### BEGIN BUILD TARGETS ###")>>,
      <<W("###########################")>>,
      <<>>>>

\* lines 299-335
gen_defines(project_archs_, compiler, configs) ==
    CatAll(<<DefinesHead,
             make_ifndef("ARCH", T(<<W("ARCH"), W("="),
                                     W(get_default_platform(project_archs_))>>)), NL,
             T(<<W("# change the config with"),
                 <<"CONFIG=[">> \o JoinAtoms(",", configs) \o <<"]">>,
                 W("to make")>>), NL,
             make_ifndef("CONFIG", T(<<W("CONFIG"), W("="), W(configs[1])>>)), NL,
             T(<<W("# edit this in your QPC script configuration/general/compiler")>>), NL,
             make_ifndef("COMPILER", T(<<W("COMPILER"), W("="), compiler>>)),
             DefinesTail>>)

-----------------------------------------------------------------------------
(* Inputs of create_project *)

Sources == {<<"a", "/", "m", ".", "c">>, <<"b", "/", "m", ".", "c">>, <<"n", ".", "cpp">>}

ConfigTypes == {"APPLICATION", "DYNAMIC_LIBRARY", "STATIC_LIBRARY"}

ImportLibraries == {<<>>, <<"lib", "/", "imp", ".", "lib">>, <<"imp">>}

EntryPoints == {<<>>, <<"start">>}

\* none, in a directory, in the root directory, after a doubled separator
OutputFiles ==
    {<<>>, <<"bin", "/", "app", ".", "exe">>, <<"/", "app">>,
     <<"out", "/", "/", "app", ".", "exe">>}

PostBuilds ==
    {<<>>,
     <<<<W("strip"), W("$@")>>>>,
     <<<<W("strip"), W("$@")>>, <<W("cp"), W("$@"), W("dist")>>>>}

\* a configuration with every flag and hook list empty, and one with none empty
Settings ==
    {[compiler_options |-> <<>>, linker_options |-> <<>>,
      preprocessor_definitions |-> <<>>, library_directories |-> <<>>,
      libraries |-> <<>>, include_directories |-> <<>>,
      pre_build |-> <<>>, pre_link |-> <<>>, out_dir |-> <<>>, out_name |-> <<>>],
     [compiler_options |-> <<W("-O2")>>, linker_options |-> <<W("-s")>>,
      preprocessor_definitions |-> <<W("NDEBUG"), W("X=1")>>,
      library_directories |-> <<W("libs")>>,
      libraries |-> <<W("m")>>, include_directories |-> <<W("inc")>>,
      pre_build |-> <<<<W("mkdir"), W("gen")>>>>, pre_link |-> <<<<W("touch"), W("stamp")>>>>,
      out_dir |-> W("bin"), out_name |-> W("app")]}

\* a ProjectPass; compiler is what get_compiler returns for the compiler and
\* the language of its configuration
Pass(config_name, arch, compiler, src, kind, imp, entry, out, post, st) ==
    [source_files |-> src, config_name |-> config_name, arch |-> arch,
     file_name |-> W("proj"), compiler |-> compiler,
     config |-> [configuration_type |-> kind, build_dir |-> W("build"),
                 out_dir |-> st.out_dir, out_name |-> st.out_name,
                 compiler_options |-> st.compiler_options,
                 linker_options |-> st.linker_options,
                 preprocessor_definitions |-> st.preprocessor_definitions,
                 library_directories |-> st.library_directories,
                 libraries |-> st.libraries,
                 include_directories |-> st.include_directories,
                 entry_point |-> entry, output_file |-> out, import_library |-> imp,
                 pre_build |-> st.pre_build, pre_link |-> st.pre_link,
                 post_build |-> post]]

\* the passes of the projects with one pass: every setting varies
Passes ==
    {Pass("Debug", "amd64", W("g++"), src, kind, imp, entry, out, post, st) :
        src \in DistinctSeqsUpTo(Sources, MaxSources), kind \in ConfigTypes,
        imp \in ImportLibraries, entry \in EntryPoints, out \in OutputFiles,
        post \in PostBuilds, st \in Settings}

\* the passes of the projects with several passes: the configuration, the
\* architecture and the output kind vary, each pass has an import library,
\* an output file and a post-build command
SomePasses ==
    {Pass(config_name, ArchNameLower(arch),
          IF config_name = "Debug" THEN W("gcc") ELSE W("g++"),
          <<<<"n", ".", "cpp">>>>, kind, <<"imp">>, <<>>,
          <<"bin", "/", "app", ".", "exe">>, <<<<W("strip"), W("$@")>>>>,
          CHOOSE st \in Settings : st.out_dir = <<>>) :
        config_name \in Range(Configs), arch \in {"AMD64", "I386", "ARM64"},
        kind \in ConfigTypes}

\* the architectures of a list of passes, in the order of their first pass
RECURSIVE ArchsOf(_, _)
ArchsOf(passes, acc) ==
    IF passes = <<>> THEN acc
    ELSE LET arch == CHOOSE a \in Arch : ArchNameLower(a) = Head(passes).arch
         IN  ArchsOf(Tail(passes), IF arch \in Range(acc) THEN acc ELSE Append(acc, arch))

\* the projects: without a pass, with one pass, with several passes that
\* differ in configuration or architecture
ProjectInputs ==
    {[archs |-> a, passes |-> <<>>] : a \in {<<"AMD64">>, <<"ARM", "I386">>}}
    \cup {[archs |-> <<"AMD64">>, passes |-> <<p>>] : p \in Passes}
    \cup {[archs |-> ArchsOf(ps, <<>>), passes |-> ps] :
             ps \in {s \in SeqsUpTo(SomePasses, MaxPasses) :
                        /\ Len(s) >= 2
                        /\ \A i, j \in 1..Len(s) :
                              i # j => <<s[i].config_name, s[i].arch>>
                                          # <<s[j].config_name, s[j].arch>>}}

-----------------------------------------------------------------------------
(* create_project, lines 34-48 *)

\* lines 35-42: without a pass the method returns and writes nothing;
\* otherwise makefile starts as the header gen_defines returns
CreateProject ==
    /\ pc = "idle"
    /\ \E project \in ProjectInputs :
          /\ project_archs' = project.archs
          /\ project_passes' = project.passes
          /\ IF project.passes = <<>>
             THEN /\ pc' = "no_passes"
                  /\ UNCHANGED makefile
             ELSE /\ pc' = "pass_loop"
                  /\ makefile' = gen_defines(project.archs, project.passes[1].compiler,
                                             Configs)
    /\ pass_index' = 1
    /\ UNCHANGED masterVars

\* lines 44-45
AppendPass ==
    /\ pc = "pass_loop"
    /\ pass_index <= Len(project_passes)
    /\ makefile' = Cat(makefile, gen_project_config_definitions(project_passes[pass_index]))
    /\ pass_index' = pass_index + 1
    /\ UNCHANGED <<pc, project_archs, project_passes>>
    /\ UNCHANGED masterVars

\* lines 47-48
WriteProject ==
    /\ pc = "pass_loop"
    /\ pass_index > Len(project_passes)
    /\ pc' = "project_written"
    /\ UNCHANGED <<project_archs, project_passes, pass_index, makefile>>
    /\ UNCHANGED masterVars

NextProject ==
    \/ CreateProject
    \/ AppendPass
    \/ WriteProject

SpecProject == Init /\ [][NextProject]_vars

-----------------------------------------------------------------------------
(* The generated fragment as make reads it *)

IsRuleLine(l) == l # <<>> /\ l[1] # TAB /\ \E i \in 1..Len(l) : l[i] = W(":")

\* the rules of a text: a rule line opens a rule, the recipe lines that follow
\* it, blank lines and comments aside, are its recipe
RECURSIVE ReadRules(_, _)
ReadRules(lines, acc) ==
    IF lines = <<>> THEN acc
    ELSE LET l == Head(lines)
         IN  IF IsRuleLine(l)
             THEN ReadRules(Tail(lines),
                      Append(acc, [target |-> SubSeq(l, 1, IndexOf(l, W(":")) - 1),
                                   deps |-> SubSeq(l, IndexOf(l, W(":")) + 1, Len(l)),
                                   recipe |-> <<>>]))
             ELSE IF IsRecipeLine(l) /\ Len(l) > 1 /\ acc # <<>>
             THEN ReadRules(Tail(lines),
                      [acc EXCEPT ![Len(acc)].recipe = Append(@, Tail(l))])
             ELSE ReadRules(Tail(lines), acc)

\* the words of a variable's value, continuation lines included
RECURSIVE ValueFrom(_, _)
ValueFrom(lines, first) ==
    LET l == Head(lines)
        body == IF first THEN SubSeq(l, 3, Len(l))
                ELSE IF IsRecipeLine(l) THEN Tail(l) ELSE l
    IN  IF body # <<>> /\ body[Len(body)] = W("\\")
        THEN SubSeq(body, 1, Len(body) - 1) \o ValueFrom(Tail(lines), FALSE)
        ELSE body

VarValue(text, name) ==
    LET i == CHOOSE k \in 1..Len(text) :
                 Len(text[k]) >= 2 /\ text[k][1] = W(name) /\ text[k][2] = W("=")
    IN  ValueFrom(SubSeq(text, i, Len(text)), TRUE)

\* the lines between two comment lines
Section(text, from, to) ==
    SubSeq(text, IndexOf(text, <<W(from)>>) + 1, IndexOf(text, <<W(to)>>) - 1)

\* a pass has been added to makefile
FragmentGenerated == pc \in {"pass_loop", "project_written"} /\ pass_index > 1

\* the pass added last
LastPass == project_passes[pass_index - 1]

Conf == LastPass.config

\* the line that opens the conditional of a configuration
IsConfigGuard(l) ==
    /\ Len(l) = 2
    /\ l[1] = W("ifeq")
    /\ Len(l[2]) = 5
    /\ l[2][4] = "$(CONFIG)"

\* the fragment added last: the lines from the last configuration guard on
Fragment ==
    LET I == {i \in 1..Len(makefile) : IsConfigGuard(makefile[i])}
    IN  SubSeq(makefile, CHOOSE i \in I : \A j \in I : j <= i, Len(makefile))

\* the rules gen_project_targets emitted
TargetRules == ReadRules(Section(Fragment, "# TARGETS", "# CLEAN TARGET:"), <<>>)

\* the rules gen_dependency_tree emitted
CompileRules ==
    ReadRules(SubSeq(Fragment, IndexOf(Fragment, <<W("#DEPENDENCY TREE:")>>) + 1,
                     IndexOf(Fragment, <<W("__PREBUILD"), W(":")>>) - 1), <<>>)

AllRules == ReadRules(Fragment, <<>>)

Markers == <<W("__PREBUILD"), W("$(OBJECTS)"), W("__PRELINK")>>

\* the import library path with its extension replaced by .a
ExpectedImportTarget(imp) ==
    IF imp = <<"imp">> THEN <<"imp", ".", "a">> ELSE <<"lib", "/", "imp", ".", "a">>

\* C5: for output kind application the dependency list of the primary rule is
\* exactly __PREBUILD, the object list, __PRELINK, followed by the import
\* library target if and only if an import library is configured.
C5_ApplicationDeps ==
    (FragmentGenerated /\ Conf.configuration_type = "APPLICATION") =>
        /\ Len(TargetRules) >= 1
        /\ TargetRules[1].deps =
               Markers \o (IF Conf.import_library # <<>>
                           THEN <<ExpectedImportTarget(Conf.import_library)>>
                           ELSE <<>>)

\* an application with an import library
C5_Witness ==
    /\ FragmentGenerated
    /\ Conf.configuration_type = "APPLICATION"
    /\ Conf.import_library = <<"lib", "/", "imp", ".", "lib">>
    /\ TargetRules[1].deps = Markers \o <<<<"lib", "/", "imp", ".", "a">>>>

\* C6: with an import library configured and an output kind other than static
\* library, exactly one more rule is emitted: its target the import library
\* path with the extension replaced by .a, its action the archive action, its
\* dependencies __PREBUILD, the object list, __PRELINK.  Otherwise the primary
\* rule is the only one and no dependency list names an import library.
C6_ImportLibraryRule ==
    FragmentGenerated =>
        IF Conf.import_library # <<>> /\ Conf.configuration_type # "STATIC_LIBRARY"
        THEN /\ Len(TargetRules) = 2
             /\ TargetRules[2].target = <<ExpectedImportTarget(Conf.import_library)>>
             /\ TargetRules[2].deps = Markers
             /\ Len(TargetRules[2].recipe) >= 2
             /\ TargetRules[2].recipe[2] = <<W("@ar"), W("rcs"), W("$@"), W("$(OBJECTS)")>>
        ELSE /\ Len(TargetRules) = 1
             /\ TargetRules[1].deps = Markers

\* a dynamic library with an import library
C6_Witness ==
    /\ FragmentGenerated
    /\ Conf.configuration_type = "DYNAMIC_LIBRARY"
    /\ Conf.import_library = <<"imp">>
    /\ Len(TargetRules) = 2
    /\ TargetRules[2].target = <<<<"imp", ".", "a">>>>

\* a static library with an import library configured: one rule
C6_WitnessStatic ==
    /\ FragmentGenerated
    /\ Conf.configuration_type = "STATIC_LIBRARY"
    /\ Conf.import_library # <<>>
    /\ Len(TargetRules) = 1

\* C7: the OBJECTS list has one entry per source file, there is one compile
\* rule per source file, and every source file is the prerequisite of exactly
\* one compile rule.
C7_OneObjectPerSource ==
    FragmentGenerated =>
        LET sources == LastPass.source_files
        IN  /\ Len(VarValue(Fragment, "OBJECTS")) = Len(sources)
            /\ Len(CompileRules) = Len(sources)
            /\ \A i \in 1..Len(sources) :
                  Cardinality({j \in 1..Len(CompileRules) :
                                  CompileRules[j].deps = <<sources[i]>>}) = 1

\* C9: the post-build commands directly follow the build action of the
\* primary rule and belong to no other rule.
C9_PostBuildInPrimaryRule ==
    (FragmentGenerated /\ Conf.post_build # <<>>) =>
        /\ SubSeq(AllRules[1].recipe, 3, Len(AllRules[1].recipe)) = Conf.post_build
        /\ \A j \in 2..Len(AllRules) :
              \A k \in 1..Len(Conf.post_build) :
                  Conf.post_build[k] \notin Range(AllRules[j].recipe)

\* C10: for application and dynamic library the build action of the primary
\* rule links the object list, not the source list; the application action
\* carries an entry-point flag if and only if an entry point is configured.
C10_LinksObjects ==
    (FragmentGenerated /\ Conf.configuration_type \in {"APPLICATION", "DYNAMIC_LIBRARY"}) =>
        LET action == TargetRules[1].recipe[2]
        IN  /\ W("$(OBJECTS)") \in Range(action)
            /\ W("$(SOURCES)") \notin Range(action)
            /\ Conf.configuration_type = "APPLICATION" =>
                  ((\E i \in 1..Len(action) : action[i][1] = "-Wl,--entry=")
                      <=> Conf.entry_point # <<>>)

====
